---------------------------- MODULE Spec2Model ----------------------------
(***************************************************************************)
(* A model of emoji-remover (src/src/main.rs): the per-line comment        *)
(* stripping closure of process_file, the file selection of                *)
(* list_non_ignored_files and the loop of main.                            *)
(*                                                                         *)
(* Text is modelled as a sequence of bytes.  An ASCII byte is written as   *)
(* the one-character string of its character, any other byte as the       *)
(* two-character string of its hexadecimal value ("E2").  Offsets are the  *)
(* 0-based byte offsets of the Rust code; None stands for Option::None.    *)
(***************************************************************************)
EXTENDS Integers, Sequences, FiniteSets, TLC

VARIABLES
    \* SpecLine: one line through the cleaning closure, twice
    lnExt,          \* the extension of the file the line is from
    lnIn,           \* the line
    lnOut1,         \* the result of the first pass
    lnOut2,         \* the result of the second pass, over the first's output
    lnStep,         \* the number of passes made
    \* Spec and SpecSelect: one run of main
    includes,       \* cli.include
    excludes,       \* cli.exclude
    pc,             \* the position of main
    exitCode,       \* the exit status once the process has ended, else None
    err,            \* the AppError that ended find_git_root or list_non_ignored_files
    walkPos,        \* the entry of the tree the walker yielded last
    walked,         \* the number of items the walker has yielded
    ignoreSaid,     \* what repo.is_path_ignored answered, per entry
    files,          \* non_ignored_files, then files_to_process
    fileIdx,        \* the file of files_to_process the loop is at
    disk,           \* the bytes of each file
    original,       \* the bytes of each file when the run started
    content,        \* the content process_file has read
    lineIdx,        \* the number of lines the closure has cleaned
    cleaned_lines,  \* the lines the closure has returned
    modified,       \* the flag of process_file
    attempts,       \* the files process_file was called on, in order
    writes,         \* the calls of fs::write, in order
    notices         \* what was printed to stderr, in order

lnVars == <<lnExt, lnIn, lnOut1, lnOut2, lnStep>>

selVars == <<includes, excludes, pc, exitCode, err, walkPos, walked, ignoreSaid, files>>

fileVars == <<fileIdx, disk, original, content, lineIdx, cleaned_lines, modified, attempts, writes,
              notices>>

vars == <<lnVars, selVars, fileVars>>

-----------------------------------------------------------------------------
(* Bounds of the model. *)

\* the longest line of SpecLine, in pieces of LinePieces
MaxPieces == 4

\* the number of entries of TreePool that are in the tree
MaxEntries == 9

-----------------------------------------------------------------------------
(* Byte strings and the str methods the code calls. *)

None == -1

\* "‼️" is U+203C U+FE0F, in UTF-8 the six bytes E2 80 BC EF B8 8F
Marker == <<"E2", "80", "BC", "EF", "B8", "8F">>

\* U+203C alone, without the variation selector: not the marker
BangBang == <<"E2", "80", "BC">>

OpenHtml == <<"<", "!", "-", "-">>
CloseHtml == <<"-", "-", ">">>
OpenCss == <<"/", "*">>
CloseCss == <<"*", "/">>
SlashSlash == <<"/", "/">>
OpenJsx == <<"{", "/", "*">>
CloseJsx == <<"*", "/", "}">>
Hash == <<"#">>

ExtHtml == <<"h", "t", "m", "l">>
ExtCss == <<"c", "s", "s">>
ExtJsx == <<"j", "s", "x">>
ExtTsx == <<"t", "s", "x">>
ExtRs == <<"r", "s">>
ExtJs == <<"j", "s">>
ExtTs == <<"t", "s">>
ExtPy == <<"p", "y">>
ExtNone == <<>>

\* char::is_whitespace, on the whitespace of the model: space and tab
IsWhitespace(b) == b \in {" ", "\t"}

\* t occurs in s at byte offset i
IsAt(s, t, i) == i + Len(t) <= Len(s) /\ \A k \in 1..Len(t) : s[i + k] = t[k]

\* str::find: the offset of the first occurrence of t in s
Find(s, t) ==
    IF \E i \in 0..Len(s) : IsAt(s, t, i)
    THEN CHOOSE i \in 0..Len(s) : IsAt(s, t, i) /\ \A j \in 0..(i - 1) : ~IsAt(s, t, j)
    ELSE None

\* str::contains
Contains(s, t) == Find(s, t) # None

\* &s[a..b]
Slice(s, a, b) == SubSeq(s, a + 1, b)

\* &s[a..]
SliceFrom(s, a) == SubSeq(s, a + 1, Len(s))

\* str::trim_end
TrimEnd(s) ==
    LET keep == {n \in 0..Len(s) : n = 0 \/ ~IsWhitespace(s[n])}
        last == CHOOSE n \in keep : \A m \in keep : m <= n
    IN  SubSeq(s, 1, last)

\* str::trim_start
TrimStart(s) ==
    LET keep == {n \in 1..(Len(s) + 1) : n = Len(s) + 1 \/ ~IsWhitespace(s[n])}
        first == CHOOSE n \in keep : \A m \in keep : n <= m
    IN  SubSeq(s, first, Len(s))

\* str::trim
Trim(s) == TrimStart(TrimEnd(s))

-----------------------------------------------------------------------------
(* The closure of process_file that cleans one line (lines 50-120).  It    *)
(* yields the cleaned line and whether it set the captured flag modified.  *)

Rule(start, hasEnder, ender) == [start |-> start, hasEnder |-> hasEnder, ender |-> ender]

\* a mutant of DualRule: the block opener is preferred whenever it occurs
DualRuleBlockFirst(line) ==
    LET slash_idx == Find(line, SlashSlash)
        block_idx == Find(line, OpenJsx)
    IN  IF block_idx # None THEN Rule(block_idx, TRUE, CloseJsx)
        ELSE IF slash_idx # None THEN Rule(slash_idx, FALSE, <<>>)
        ELSE Rule(None, FALSE, <<>>)

\* jsx and tsx: the earlier of "//" and "{/*"
DualRule(line) ==
    LET slash_idx == Find(line, SlashSlash)
        block_idx == Find(line, OpenJsx)
    IN  IF slash_idx # None /\ block_idx # None
        THEN IF slash_idx < block_idx
             THEN Rule(slash_idx, FALSE, <<>>)
             ELSE Rule(block_idx, TRUE, CloseJsx)
        ELSE IF slash_idx # None THEN Rule(slash_idx, FALSE, <<>>)
        ELSE IF block_idx # None THEN Rule(block_idx, TRUE, CloseJsx)
        ELSE Rule(None, FALSE, <<>>)

\* (comment_start, block_ender) of a line
CommentRule(ext, line) ==
    IF ext = ExtHtml THEN Rule(Find(line, OpenHtml), TRUE, CloseHtml)
    ELSE IF ext = ExtCss THEN Rule(Find(line, OpenCss), TRUE, CloseCss)
    ELSE IF ext \in {ExtJsx, ExtTsx} THEN DualRule(line)
    ELSE IF ext \in {ExtRs, ExtJs, ExtTs} THEN Rule(Find(line, SlashSlash), FALSE, <<>>)
    ELSE Rule(Find(line, Hash), FALSE, <<>>)

Cleaned(text, hit) == [text |-> text, hit |-> hit]

\* line[start..].find(ender): the closer's offset relative to start
FindEnder(line, start, ender) == Find(SliceFrom(line, start), ender)

\* a mutant of SpliceBlock: the span is always spliced out
SpliceBlockNoTrim(line, start, end) == Slice(line, 0, start) \o SliceFrom(line, end)

\* the line without the comment span [start, end)
SpliceBlock(line, start, end) ==
    LET prefix == Slice(line, 0, start)
        suffix == SliceFrom(line, end)
    IN  IF Trim(suffix) = <<>> THEN TrimEnd(prefix) ELSE prefix \o suffix

\* a mutant of Truncate: the text before the opener keeps its trailing whitespace
TruncateNoTrim(line, start) == Slice(line, 0, start)

\* line[..start].trim_end()
Truncate(line, start) == TrimEnd(Slice(line, 0, start))

\* a block opener at start whose closer is at start + end_offset
ClosedBlock(line, start, end_offset, ender) ==
    LET end == start + end_offset + Len(ender)
        comment_content == Slice(line, start, end)
    IN  IF Contains(comment_content, Marker)
        THEN Cleaned(SpliceBlock(line, start, end), TRUE)
        ELSE Cleaned(line, FALSE)

\* a line comment, or a block comment with no closer on the line
OpenComment(line, start) ==
    LET comment_part == SliceFrom(line, start)
    IN  IF Contains(comment_part, Marker)
        THEN Cleaned(Truncate(line, start), TRUE)
        ELSE Cleaned(line, FALSE)

CleanLine(ext, line) ==
    LET rule == CommentRule(ext, line)
        start == rule.start
    IN  IF start # None
        THEN IF rule.hasEnder
             THEN LET end_offset == FindEnder(line, start, rule.ender)
                  IN  IF end_offset # None
                      THEN ClosedBlock(line, start, end_offset, rule.ender)
                      ELSE OpenComment(line, start)
             ELSE OpenComment(line, start)
        ELSE Cleaned(line, FALSE)

-----------------------------------------------------------------------------
(* File contents: UTF-8 decoding, str::lines and join.                      *)

\* the bytes of the model that are not ASCII
NonAscii == {"E2", "80", "BC", "EF", "B8", "8F", "FF"}

\* String::from_utf8 and OsStr::to_str succeed: every byte is ASCII or part
\* of the encoding of U+203C or of U+FE0F (the byte FF is in no encoding)
RECURSIVE Utf8Valid(_)
Utf8Valid(bytes) ==
    IF bytes = <<>> THEN TRUE
    ELSE IF Head(bytes) \notin NonAscii THEN Utf8Valid(Tail(bytes))
    ELSE IF IsAt(bytes, <<"E2", "80", "BC">>, 0) THEN Utf8Valid(SliceFrom(bytes, 3))
    ELSE IF IsAt(bytes, <<"EF", "B8", "8F">>, 0) THEN Utf8Valid(SliceFrom(bytes, 3))
    ELSE FALSE

\* str::lines: the text between newlines, without a last empty line (the
\* contents of the model hold no carriage return)
RECURSIVE Lines(_)
Lines(text) ==
    IF text = <<>> THEN <<>>
    ELSE LET nl == Find(text, <<"\n">>)
         IN  IF nl = None THEN <<text>>
             ELSE <<Slice(text, 0, nl)>> \o Lines(SliceFrom(text, nl + 1))

\* cleaned_lines.join("\n")
RECURSIVE Join(_)
Join(ls) ==
    IF ls = <<>> THEN <<>>
    ELSE IF Len(ls) = 1 THEN ls[1]
    ELSE ls[1] \o <<"\n">> \o Join(Tail(ls))

\* the offset of the last occurrence of byte b in s, or None
LastIndexOf(s, b) ==
    LET at == {i \in 1..Len(s) : s[i] = b}
    IN  IF at = {} THEN None ELSE (CHOOSE i \in at : \A j \in at : j <= i) - 1

\* Path::file_name of a relative path ('\' is no separator on the walk's paths)
FileName(path) == SliceFrom(path, LastIndexOf(path, "/") + 1)

\* file_path.extension().and_then(|s| s.to_str()).unwrap_or("")
ExtOf(path) ==
    LET name == FileName(path)
        dot == LastIndexOf(name, ".")
    IN  IF dot = None \/ dot = 0 THEN <<>>
        ELSE IF Utf8Valid(SliceFrom(name, dot + 1)) THEN SliceFrom(name, dot + 1)
        ELSE <<>>

-----------------------------------------------------------------------------
(* glob::Pattern, for patterns of literals, '?', '*' and '['.               *)

\* Pattern::new fails: a '[' with no ']' two or more characters later, or a
\* run of three '*' (the patterns of the model hold no "**" and no closed
\* character class)
PatternError(p) ==
    \/ \E i \in 1..Len(p) : p[i] = "[" /\ ~\E j \in (i + 2)..Len(p) : p[j] = "]"
    \/ \E i \in 1..(Len(p) - 2) : p[i] = "*" /\ p[i + 1] = "*" /\ p[i + 2] = "*"

\* Pattern::matches with the default options: '*' is any text, '/' included,
\* '?' is any one character, anything else is itself
RECURSIVE GlobMatches(_, _)
GlobMatches(p, str) ==
    IF p = <<>> THEN str = <<>>
    ELSE IF Head(p) = "*"
         THEN \E k \in 0..Len(str) : GlobMatches(Tail(p), SliceFrom(str, k))
    ELSE IF str = <<>> THEN FALSE
    ELSE (Head(p) = "?" \/ Head(p) = Head(str)) /\ GlobMatches(Tail(p), Tail(str))

\* s.replace('\\', "/")
Normalize(path) == [k \in 1..Len(path) |-> IF path[k] = "\\" THEN "/" ELSE path[k]]

-----------------------------------------------------------------------------
(* The tree under the repository root, in the order WalkDir visits it.      *)

Entry(rel, name, parent, dir) == [rel |-> rel, name |-> name, parent |-> parent, dir |-> dir]

DotGit == <<".", "g", "i", "t">>

TreePool == <<
    Entry(<<>>, <<"w">>, 0, TRUE),
    Entry(DotGit, DotGit, 1, TRUE),
    Entry(DotGit \o <<"/", "c", ".", "r", "s">>, <<"c", ".", "r", "s">>, 2, FALSE),
    Entry(<<"a", ".", "c", "s", "s">>, <<"a", ".", "c", "s", "s">>, 1, FALSE),
    Entry(<<"d">>, <<"d">>, 1, TRUE),
    Entry(<<"d", "/", "b", ".", "r", "s">>, <<"b", ".", "r", "s">>, 5, FALSE),
    Entry(<<"d", "/">> \o DotGit, DotGit, 5, FALSE),
    Entry(<<"e", "\\", "f", ".", "p", "y">>, <<"e", "\\", "f", ".", "p", "y">>, 1, FALSE),
    Entry(<<"FF", ".", "r", "s">>, <<"FF", ".", "r", "s">>, 1, FALSE),
    Entry(<<"g", ".", "h", "t", "m", "l">>, <<"g", ".", "h", "t", "m", "l">>, 1, FALSE) >>

Tree == SubSeq(TreePool, 1, IF MaxEntries < Len(TreePool) THEN MaxEntries ELSE Len(TreePool))

\* is_git_dir
is_git_dir(entry) == entry.name = DotGit

\* filter_entry(|e| !is_git_dir(e)): an entry named .git is not yielded and
\* not descended into
RECURSIVE Filtered(_)
Filtered(i) ==
    \/ is_git_dir(Tree[i])
    \/ Tree[i].parent # 0 /\ Filtered(Tree[i].parent)

\* the next entry the walker yields after entry pos, or 0 at the end
NextYield(pos) ==
    LET rest == {i \in (pos + 1)..Len(Tree) : ~Filtered(i)}
    IN  IF rest = {} THEN 0 ELSE CHOOSE i \in rest : \A j \in rest : i <= j

\* the files of the tree, by relative path
AllFiles == {Tree[i].rel : i \in {j \in 1..Len(Tree) : ~Tree[j].dir}}

-----------------------------------------------------------------------------
(* list_non_ignored_files (lines 143-204).                                  *)

\* a mutant of IsSelected: a path that matches an include pattern is selected
\* before the exclude patterns are looked at
IsSelectedIncludeFirst(incl, excl, str) ==
    \/ \E k \in 1..Len(incl) : GlobMatches(incl[k], str)
    \/ incl = <<>> /\ ~\E k \in 1..Len(excl) : GlobMatches(excl[k], str)

\* a mutant of IsSelected: a path must match every include pattern
IsSelectedAllIncludes(incl, excl, str) ==
    /\ ~\E k \in 1..Len(excl) : GlobMatches(excl[k], str)
    /\ incl # <<>>
    /\ \A k \in 1..Len(incl) : GlobMatches(incl[k], str)

\* lines 178-201: whether the path is pushed
IsSelected(incl, excl, str) ==
    LET is_excluded == \E k \in 1..Len(excl) : GlobMatches(excl[k], str)
        is_included == \E k \in 1..Len(incl) : GlobMatches(incl[k], str)
    IN  IF is_excluded THEN FALSE
        ELSE IF incl = <<>> THEN TRUE
        ELSE is_included

\* whether the loop body reaches repo.is_path_ignored for the entry
AsksIgnore(entry) == ~entry.dir /\ entry.rel # <<>>

\* a mutant of EntryOutcome: the patterns are consulted first and an included
\* path is pushed whatever the ignore rules say
EntryOutcomeIgnoreLast(entry, answer, incl, excl) ==
    IF entry.dir THEN "skip"
    ELSE IF entry.rel = <<>> THEN "skip"
    ELSE IF answer = "error" THEN "error"
    ELSE IF ~Utf8Valid(entry.rel) THEN "skip"
    ELSE IF IsSelected(incl, excl, Normalize(entry.rel)) THEN "push"
    ELSE "skip"

\* lines 161-201: what the loop body does with an entry, given the answer of
\* repo.is_path_ignored
EntryOutcome(entry, answer, incl, excl) ==
    IF entry.dir THEN "skip"
    ELSE IF entry.rel = <<>> THEN "skip"
    ELSE IF answer = "error" THEN "error"
    ELSE IF answer = "yes" THEN "skip"
    ELSE IF ~Utf8Valid(entry.rel) THEN "skip"
    ELSE IF IsSelected(incl, excl, Normalize(entry.rel)) THEN "push"
    ELSE "skip"

\* line 148: Repository::open(repo_root)?
OpenRepo ==
    /\ pc = "open_repo"
    /\ \E opened \in BOOLEAN :
        IF opened
        THEN pc' = "compile" /\ err' = err
        ELSE pc' = "select_failed" /\ err' = "GitDiscovery"
    /\ UNCHANGED <<includes, excludes, exitCode, walkPos, walked, ignoreSaid, files>>
    /\ UNCHANGED <<lnVars, fileVars>>

\* a mutant of CompilePatterns: a pattern is compiled when it is first matched,
\* so that the walk starts whatever the patterns are
CompilePatternsLazily ==
    /\ pc = "compile"
    /\ pc' = "walk"
    /\ files' = <<>>
    /\ UNCHANGED <<includes, excludes, exitCode, err, walkPos, walked, ignoreSaid>>
    /\ UNCHANGED <<lnVars, fileVars>>

\* lines 149-155: every pattern is compiled, the includes first
CompilePatterns ==
    /\ pc = "compile"
    /\ IF \E k \in 1..Len(includes) : PatternError(includes[k])
       THEN pc' = "select_failed" /\ err' = "InvalidGlob" /\ files' = files
       ELSE IF \E k \in 1..Len(excludes) : PatternError(excludes[k])
       THEN pc' = "select_failed" /\ err' = "InvalidGlob" /\ files' = files
       ELSE pc' = "walk" /\ err' = err /\ files' = <<>>
    /\ UNCHANGED <<includes, excludes, exitCode, walkPos, walked, ignoreSaid>>
    /\ UNCHANGED <<lnVars, fileVars>>

\* lines 159-202: one iteration of the loop over the walker
WalkStep ==
    /\ pc = "walk"
    /\ NextYield(walkPos) # 0
    /\ LET i == NextYield(walkPos)
           entry == Tree[i]
       IN  /\ walkPos' = i
           /\ walked' = walked + 1
           /\ \E yielded \in {"ok", "error"}, answer \in {"yes", "no", "error"} :
                IF yielded = "error"
                THEN pc' = "select_failed" /\ err' = "WalkDir"
                     /\ UNCHANGED <<ignoreSaid, files>>
                ELSE /\ ignoreSaid' = IF AsksIgnore(entry)
                                      THEN [ignoreSaid EXCEPT ![i] = answer]
                                      ELSE ignoreSaid
                     /\ LET outcome == EntryOutcome(entry, answer, includes, excludes)
                        IN  IF outcome = "error"
                            THEN pc' = "select_failed" /\ err' = "GitDiscovery"
                                 /\ files' = files
                            ELSE /\ pc' = pc
                                 /\ err' = err
                                 /\ files' = IF outcome = "push"
                                             THEN Append(files, entry.rel)
                                             ELSE files
    /\ UNCHANGED <<includes, excludes, exitCode>>
    /\ UNCHANGED <<lnVars, fileVars>>

\* line 203: the walker is exhausted
WalkEnd ==
    /\ pc = "walk"
    /\ NextYield(walkPos) = 0
    /\ pc' = "selected"
    /\ UNCHANGED <<includes, excludes, exitCode, err, walkPos, walked, ignoreSaid, files>>
    /\ UNCHANGED <<lnVars, fileVars>>

-----------------------------------------------------------------------------
(* main (lines 206-233) and process_file (lines 39-131).                    *)

Note(kind, file) == [kind |-> kind, file |-> file]

\* lines 208-214
FindGitRoot ==
    /\ pc = "find_root"
    /\ \E found \in {"ok", "GitDiscovery", "BareRepo"} :
        IF found = "ok"
        THEN pc' = "open_repo" /\ UNCHANGED <<err, exitCode, notices>>
        ELSE /\ pc' = "exit"
             /\ err' = found
             /\ exitCode' = 1
             /\ notices' = Append(notices, Note("Error finding git root", <<>>))
    /\ UNCHANGED <<includes, excludes, walkPos, walked, ignoreSaid, files>>
    /\ UNCHANGED <<fileIdx, disk, original, content, lineIdx, cleaned_lines, modified, attempts,
                 writes>>
    /\ UNCHANGED lnVars

\* lines 217-220
SelectionFailed ==
    /\ pc = "select_failed"
    /\ pc' = "exit"
    /\ exitCode' = 1
    /\ notices' = Append(notices, Note("Error listing files", <<>>))
    /\ UNCHANGED <<includes, excludes, err, walkPos, walked, ignoreSaid, files>>
    /\ UNCHANGED <<fileIdx, disk, original, content, lineIdx, cleaned_lines, modified, attempts,
                 writes>>
    /\ UNCHANGED lnVars

\* lines 222-226
AfterSelect ==
    /\ pc = "selected"
    /\ IF files = <<>>
       THEN /\ notices' = Append(notices, Note("No files found", <<>>))
            /\ exitCode' = 0
            /\ pc' = "exit"
            /\ fileIdx' = fileIdx
       ELSE /\ notices' = Append(notices, Note("Found", <<>>))
            /\ exitCode' = exitCode
            /\ pc' = "read"
            /\ fileIdx' = 1
    /\ UNCHANGED <<includes, excludes, err, walkPos, walked, ignoreSaid, files>>
    /\ UNCHANGED <<disk, original, content, lineIdx, cleaned_lines, modified, attempts, writes>>
    /\ UNCHANGED lnVars

\* a mutant of ReadFile: a file that cannot be read or decoded ends the run
ReadFileOrAbort ==
    /\ pc = "read"
    /\ fileIdx <= Len(files)
    /\ attempts' = Append(attempts, files[fileIdx])
    /\ \E read \in BOOLEAN :
        IF read /\ Utf8Valid(disk[files[fileIdx]])
        THEN /\ content' = disk[files[fileIdx]]
             /\ modified' = FALSE
             /\ lineIdx' = 0
             /\ cleaned_lines' = <<>>
             /\ pc' = "lines"
             /\ UNCHANGED <<fileIdx, notices, exitCode>>
        ELSE /\ notices' = Append(notices, Note("Error processing file", files[fileIdx]))
             /\ pc' = "exit"
             /\ exitCode' = 1
             /\ UNCHANGED <<fileIdx, content, modified, lineIdx, cleaned_lines>>
    /\ UNCHANGED <<includes, excludes, err, walkPos, walked, ignoreSaid, files>>
    /\ UNCHANGED <<disk, original, writes>>
    /\ UNCHANGED lnVars

\* lines 227-230 and 40-47: process_file is called on the next file, reads it
\* and decodes it
ReadFile ==
    /\ pc = "read"
    /\ fileIdx <= Len(files)
    /\ attempts' = Append(attempts, files[fileIdx])
    /\ \E read \in BOOLEAN :
        IF read /\ Utf8Valid(disk[files[fileIdx]])
        THEN /\ content' = disk[files[fileIdx]]
             /\ modified' = FALSE
             /\ lineIdx' = 0
             /\ cleaned_lines' = <<>>
             /\ pc' = "lines"
             /\ UNCHANGED <<fileIdx, notices>>
        ELSE /\ notices' = Append(notices, Note("Error processing file", files[fileIdx]))
             /\ fileIdx' = fileIdx + 1
             /\ pc' = "read"
             /\ UNCHANGED <<content, modified, lineIdx, cleaned_lines>>
    /\ UNCHANGED <<includes, excludes, exitCode, err, walkPos, walked, ignoreSaid, files>>
    /\ UNCHANGED <<disk, original, writes>>
    /\ UNCHANGED lnVars

\* lines 48-121: the closure on the next line of content.lines()
CleanNextLine ==
    /\ pc = "lines"
    /\ lineIdx < Len(Lines(content))
    /\ LET cleaned == CleanLine(ExtOf(files[fileIdx]), Lines(content)[lineIdx + 1])
       IN  /\ cleaned_lines' = Append(cleaned_lines, cleaned.text)
           /\ modified' = (modified \/ cleaned.hit)
    /\ lineIdx' = lineIdx + 1
    /\ UNCHANGED selVars
    /\ UNCHANGED <<fileIdx, disk, original, content, attempts, writes, notices>>
    /\ UNCHANGED lnVars

WriteCall(file, data) == [file |-> file, data |-> data]

\* a mutant of FinishFile: the joined lines are written whether or not a line
\* was modified
FinishFileAlwaysWrite ==
    /\ pc = "lines"
    /\ lineIdx = Len(Lines(content))
    /\ LET file == files[fileIdx]
           output == Join(cleaned_lines)
       IN  /\ writes' = Append(writes, WriteCall(file, output))
           /\ disk' = [disk EXCEPT ![file] = output]
           /\ notices' = Append(notices, Note("Cleaned", file))
    /\ fileIdx' = fileIdx + 1
    /\ pc' = "read"
    /\ UNCHANGED <<includes, excludes, exitCode, err, walkPos, walked, ignoreSaid, files>>
    /\ UNCHANGED <<original, content, lineIdx, cleaned_lines, modified, attempts>>
    /\ UNCHANGED lnVars

\* lines 123-130 and 228-230: the file is written if a line was modified;
\* a failed fs::write leaves the file as it was or truncated
FinishFile ==
    /\ pc = "lines"
    /\ lineIdx = Len(Lines(content))
    /\ LET file == files[fileIdx]
           output == Join(cleaned_lines)
       IN  IF modified
           THEN /\ writes' = Append(writes, WriteCall(file, output))
                /\ \E written \in BOOLEAN :
                    IF written
                    THEN /\ disk' = [disk EXCEPT ![file] = output]
                         /\ notices' = Append(notices, Note("Cleaned", file))
                    ELSE /\ disk' \in {disk, [disk EXCEPT ![file] = <<>>]}
                         /\ notices' = Append(notices, Note("Error processing file", file))
           ELSE UNCHANGED <<writes, disk, notices>>
    /\ fileIdx' = fileIdx + 1
    /\ pc' = "read"
    /\ UNCHANGED <<includes, excludes, exitCode, err, walkPos, walked, ignoreSaid, files>>
    /\ UNCHANGED <<original, content, lineIdx, cleaned_lines, modified, attempts>>
    /\ UNCHANGED lnVars

\* line 232: the loop is over
MainDone ==
    /\ pc = "read"
    /\ fileIdx > Len(files)
    /\ notices' = Append(notices, Note("Done", <<>>))
    /\ exitCode' = 0
    /\ pc' = "exit"
    /\ UNCHANGED <<includes, excludes, err, walkPos, walked, ignoreSaid, files>>
    /\ UNCHANGED <<fileIdx, disk, original, content, lineIdx, cleaned_lines, modified, attempts,
                 writes>>
    /\ UNCHANGED lnVars

-----------------------------------------------------------------------------
(* The inputs of a run.                                                     *)

Star == <<"*">>

\* line 32: the default of --include
DefaultInclude == <<
    Star \o <<".", "r", "s">>,
    Star \o <<".", "t", "o", "m", "l">>,
    Star \o <<".", "p", "y">>,
    Star \o <<".", "j", "s", "x">>,
    Star \o <<".", "t", "s", "x">>,
    Star \o <<".", "h", "t", "m", "l">>,
    Star \o <<".", "c", "s", "s">> >>

\* the values of --include of the model; clap gives main at least one pattern
MainIncludePool == {
    DefaultInclude,
    << <<"d", "/", "*">>, <<"?", ".", "c", "s", "s">> >>,
    << Star \o <<".", "r", "s">>, <<"[">> >> }

\* list_non_ignored_files takes any slice, the empty one included
IncludePool == MainIncludePool \cup {<<>>}

\* the values of --exclude of the runs of main
MainExcludePool == {
    <<>>,
    << Star \o <<".", "c", "s", "s">>, <<"e", "/", "*">> >>,
    << <<"a", "[">> >> }

\* the exclude slices of list_non_ignored_files
ExcludePool == MainExcludePool \cup {<< <<"d", "/", "b", ".", "r", "s">> >>}

\* file contents: no comment; a flagged comment of each syntax; not UTF-8
Plain == <<"x", "\n">>

Marked ==
    <<"x", " ", "#">> \o Marker \o <<"\n">>
    \o SlashSlash \o Marker \o <<"\n">>
    \o OpenCss \o Marker \o CloseCss \o <<"x", "\n">>
    \o OpenHtml \o Marker \o CloseHtml \o <<"\n">>

NotUtf8 == <<"FF">>

ContentPool == {Plain, Marked, NotUtf8}

\* the files a run can select
Selectable ==
    {Tree[i].rel : i \in {j \in 1..Len(Tree) :
        ~Tree[j].dir /\ ~Filtered(j) /\ Utf8Valid(Tree[j].rel)}}

LineIdle ==
    /\ lnExt = <<>>
    /\ lnIn = <<>>
    /\ lnOut1 = Cleaned(<<>>, FALSE)
    /\ lnOut2 = Cleaned(<<>>, FALSE)
    /\ lnStep = None

SelectIdle ==
    /\ includes = <<>>
    /\ excludes = <<>>
    /\ pc = "idle"
    /\ exitCode = None
    /\ err = "none"
    /\ walkPos = 0
    /\ walked = 0
    /\ ignoreSaid = [i \in 1..Len(Tree) |-> "unasked"]
    /\ files = <<>>

FilesIdle ==
    /\ fileIdx = 0
    /\ disk = [f \in AllFiles |-> Plain]
    /\ original = disk
    /\ content = <<>>
    /\ lineIdx = 0
    /\ cleaned_lines = <<>>
    /\ modified = FALSE
    /\ attempts = <<>>
    /\ writes = <<>>
    /\ notices = <<>>

-----------------------------------------------------------------------------
(* SpecLine: the closure applied to one line, then to its own output.      *)

RECURSIVE Flatten(_)
Flatten(ps) == IF ps = <<>> THEN <<>> ELSE Head(ps) \o Flatten(Tail(ps))

\* the pieces a line of the given extension is built from: the tokens of its
\* comment syntax, the marker, an opener followed by the marker, whitespace,
\* text, and a byte that overlaps a closer with its opener
LinePieces(ext) ==
    IF ext = ExtHtml
    THEN {OpenHtml, OpenHtml \o Marker, CloseHtml, Marker, <<" ">>, <<"x">>, <<">">>}
    ELSE IF ext = ExtCss
    THEN {OpenCss, OpenCss \o Marker, CloseCss, Marker, <<" ">>, <<"x">>, <<"/">>}
    ELSE IF ext \in {ExtJsx, ExtTsx}
    THEN {SlashSlash, OpenJsx, OpenJsx \o Marker, CloseJsx, Marker, <<" ">>, <<"x">>}
    ELSE IF ext \in {ExtRs, ExtJs, ExtTs} THEN {SlashSlash, Marker, <<" ">>, BangBang}
    ELSE {Hash, Marker, <<"\t">>, <<"x">>}

LineExts == {ExtHtml, ExtCss, ExtJsx, ExtTsx, ExtRs, ExtJs, ExtTs, ExtPy, ExtNone}

LinesOf(ext) ==
    {Flatten(ps) : ps \in UNION {[1..n -> LinePieces(ext)] : n \in 0..MaxPieces}}

NotRun == Cleaned(<<>>, FALSE)

LineInit ==
    /\ lnExt \in LineExts
    /\ lnIn \in LinesOf(lnExt)
    /\ lnOut1 = NotRun
    /\ lnOut2 = NotRun
    /\ lnStep = 0
    /\ SelectIdle
    /\ FilesIdle

\* the first pass over the line
FirstPass ==
    /\ lnStep = 0
    /\ lnOut1' = CleanLine(lnExt, lnIn)
    /\ lnStep' = 1
    /\ UNCHANGED <<lnExt, lnIn, lnOut2>>
    /\ UNCHANGED <<selVars, fileVars>>

\* the second pass, over the output of the first
SecondPass ==
    /\ lnStep = 1
    /\ lnOut2' = CleanLine(lnExt, lnOut1.text)
    /\ lnStep' = 2
    /\ UNCHANGED <<lnExt, lnIn, lnOut1>>
    /\ UNCHANGED <<selVars, fileVars>>

LineNext == FirstPass \/ SecondPass

SpecLine == LineInit /\ [][LineNext]_vars

-----------------------------------------------------------------------------
(* SpecSelect: list_non_ignored_files on any pattern slices.                *)

SelectInit ==
    /\ includes \in IncludePool
    /\ excludes \in ExcludePool
    /\ pc = "open_repo"
    /\ exitCode = None
    /\ err = "none"
    /\ walkPos = 0
    /\ walked = 0
    /\ ignoreSaid = [i \in 1..Len(Tree) |-> "unasked"]
    /\ files = <<>>
    /\ FilesIdle
    /\ LineIdle

SelectNext == OpenRepo \/ CompilePatterns \/ WalkStep \/ WalkEnd

SpecSelect == SelectInit /\ [][SelectNext]_vars

-----------------------------------------------------------------------------
(* Spec: a run of main.                                                     *)

Init ==
    /\ includes \in MainIncludePool
    /\ excludes \in MainExcludePool
    /\ pc = "find_root"
    /\ exitCode = None
    /\ err = "none"
    /\ walkPos = 0
    /\ walked = 0
    /\ ignoreSaid = [i \in 1..Len(Tree) |-> "unasked"]
    /\ files = <<>>
    /\ fileIdx = 0
    /\ \E d \in [Selectable -> ContentPool] :
            disk = [f \in AllFiles |-> IF f \in Selectable THEN d[f] ELSE Plain]
    /\ original = disk
    /\ content = <<>>
    /\ lineIdx = 0
    /\ cleaned_lines = <<>>
    /\ modified = FALSE
    /\ attempts = <<>>
    /\ writes = <<>>
    /\ notices = <<>>
    /\ LineIdle

Next ==
    \/ FindGitRoot
    \/ OpenRepo
    \/ CompilePatterns
    \/ WalkStep
    \/ WalkEnd
    \/ SelectionFailed
    \/ AfterSelect
    \/ ReadFile
    \/ CleanNextLine
    \/ FinishFile
    \/ MainDone

Spec == Init /\ [][Next]_vars

-----------------------------------------------------------------------------
(* What the specification says of one line, stated from the occurrences    *)
(* of the tokens rather than through the operators above.                  *)

\* the byte offsets at which tok occurs in line
Occ(line, tok) == {i \in 0..Len(line) : IsAt(line, tok, i)}

MinOf(S) == CHOOSE x \in S : \A y \in S : x <= y

Opener(tok, block, closer) == [tok |-> tok, block |-> block, closer |-> closer]

\* the comment syntax of each language group
Openers(ext) ==
    IF ext = ExtHtml THEN {Opener(OpenHtml, TRUE, CloseHtml)}
    ELSE IF ext = ExtCss THEN {Opener(OpenCss, TRUE, CloseCss)}
    ELSE IF ext \in {ExtJsx, ExtTsx}
         THEN {Opener(SlashSlash, FALSE, <<>>), Opener(OpenJsx, TRUE, CloseJsx)}
    ELSE IF ext \in {ExtRs, ExtJs, ExtTs} THEN {Opener(SlashSlash, FALSE, <<>>)}
    ELSE {Opener(Hash, FALSE, <<>>)}

\* the openers that occur in the line, each with its first offset
Candidates(ext, line) ==
    {[at |-> MinOf(Occ(line, o.tok)), block |-> o.block, closer |-> o.closer] :
        o \in {p \in Openers(ext) : Occ(line, p.tok) # {}}}

\* the candidate with the smallest offset
Winner(ext, line) ==
    CHOOSE c \in Candidates(ext, line) : \A d \in Candidates(ext, line) : c.at <= d.at

\* the offsets of the closer at or after the opener
ClosersFrom(line, at, closer) == {j \in Occ(line, closer) : j >= at}

\* the marker lies within the bytes [a, b) of the line
MarkerWithin(line, a, b) == \E i \in Occ(line, Marker) : a <= i /\ i + Len(Marker) <= b

AllWhitespace(s) == \A k \in 1..Len(s) : IsWhitespace(s[k])

\* t is p without its trailing whitespace
IsRightTrimOf(t, p) ==
    /\ Len(t) <= Len(p)
    /\ \A k \in 1..Len(t) : t[k] = p[k]
    /\ \A k \in (Len(t) + 1)..Len(p) : IsWhitespace(p[k])
    /\ t # <<>> => ~IsWhitespace(t[Len(t)])

Unchanged(out, line) == out.text = line /\ ~out.hit

\* out is line cut at the opener offset and right-trimmed
TruncatedAt(out, line, at) == out.hit /\ IsRightTrimOf(out.text, Slice(line, 0, at))

\* the rule for an opener with no closer on the line
OpenRuleHolds(out, line, at) ==
    IF MarkerWithin(line, at, Len(line)) THEN TruncatedAt(out, line, at) ELSE Unchanged(out, line)

\* the rule for a block whose span is [at, end)
ClosedRuleHolds(out, line, at, end) ==
    IF MarkerWithin(line, at, end)
    THEN /\ out.hit
         /\ IF AllWhitespace(SliceFrom(line, end))
            THEN IsRightTrimOf(out.text, Slice(line, 0, at))
            ELSE out.text = Slice(line, 0, at) \o SliceFrom(line, end)
    ELSE Unchanged(out, line)

\* the block rules for an opener at offset at
BlockRuleHolds(out, line, at, closer) ==
    IF ClosersFrom(line, at, closer) = {}
    THEN OpenRuleHolds(out, line, at)
    ELSE ClosedRuleHolds(out, line, at, MinOf(ClosersFrom(line, at, closer)) + Len(closer))

IsDual(ext) == ext \in {ExtJsx, ExtTsx}

\* C1: cleaning the output of a first cleaning yields that output again and
\* reports no modification.
C1_Idempotent ==
    lnStep = 2 => lnOut2.text = lnOut1.text /\ ~lnOut2.hit

\* C7: for jsx and tsx the earlier of "//" and "{/*" decides the rule: "//"
\* first gives the line-comment rule alone, "{/*" first gives the block rules
\* with closer "*/}", and a single one of the two is the one used.
C7_DualEarlierWins ==
    (lnStep = 1 /\ IsDual(lnExt)) =>
        LET slashes == Occ(lnIn, SlashSlash)
            blocks == Occ(lnIn, OpenJsx)
        IN  /\ (slashes # {} /\ (blocks = {} \/ MinOf(slashes) < MinOf(blocks)))
                    => OpenRuleHolds(lnOut1, lnIn, MinOf(slashes))
            /\ (blocks # {} /\ (slashes = {} \/ MinOf(blocks) < MinOf(slashes)))
                    => BlockRuleHolds(lnOut1, lnIn, MinOf(blocks), CloseJsx)

\* a jsx line whose "//" precedes a closed "{/*" block holding the marker
C7_Witness ==
    /\ lnStep = 1
    /\ lnExt = ExtJsx
    /\ Occ(lnIn, SlashSlash) # {}
    /\ Occ(lnIn, OpenJsx) # {}
    /\ MinOf(Occ(lnIn, SlashSlash)) < MinOf(Occ(lnIn, OpenJsx))
    /\ ClosersFrom(lnIn, MinOf(Occ(lnIn, OpenJsx)), CloseJsx) # {}
    /\ MarkerWithin(lnIn, MinOf(Occ(lnIn, OpenJsx)), Len(lnIn))
    /\ SliceFrom(lnIn, MinOf(ClosersFrom(lnIn, 0, CloseJsx)) + Len(CloseJsx)) # <<>>
    /\ lnOut1.hit

\* C8: a block opener with its closer on the line spans [opener, closer end):
\* with the marker in the span the line becomes prefix + suffix, or the
\* right-trimmed prefix when the suffix is all whitespace; without it the line
\* is unchanged and not counted as modified.
C8_ClosedBlock ==
    (lnStep = 1 /\ Candidates(lnExt, lnIn) # {}) =>
        LET w == Winner(lnExt, lnIn)
            closers == ClosersFrom(lnIn, w.at, w.closer)
        IN  (w.block /\ closers # {}) =>
                ClosedRuleHolds(lnOut1, lnIn, w.at, MinOf(closers) + Len(w.closer))

\* a closed block with the marker, after a prefix ending in whitespace and
\* before a suffix of whitespace only
C8_Witness ==
    /\ lnStep = 1
    /\ Candidates(lnExt, lnIn) # {}
    /\ LET w == Winner(lnExt, lnIn)
           closers == ClosersFrom(lnIn, w.at, w.closer)
       IN  /\ w.block
           /\ closers # {}
           /\ MarkerWithin(lnIn, w.at, MinOf(closers) + Len(w.closer))
           /\ SliceFrom(lnIn, MinOf(closers) + Len(w.closer)) # <<>>
           /\ AllWhitespace(SliceFrom(lnIn, MinOf(closers) + Len(w.closer)))
           /\ w.at > 0
           /\ IsWhitespace(lnIn[w.at])
           /\ lnOut1.hit

\* C9: an opener with no closer on the line (a line-comment token, or a block
\* opener with no closer at or after it) modifies the line iff the marker lies
\* between the opener and the end of the line, the result being the text
\* before the opener without its trailing whitespace; a line with no opener is
\* unchanged.
C9_OpenComment ==
    lnStep = 1 =>
        IF Candidates(lnExt, lnIn) = {}
        THEN Unchanged(lnOut1, lnIn)
        ELSE LET w == Winner(lnExt, lnIn)
             IN  (~w.block \/ ClosersFrom(lnIn, w.at, w.closer) = {})
                     => /\ lnOut1.hit <=> MarkerWithin(lnIn, w.at, Len(lnIn))
                        /\ OpenRuleHolds(lnOut1, lnIn, w.at)

\* an unterminated block opener followed by the marker, after a prefix that
\* ends in whitespace
C9_Witness ==
    /\ lnStep = 1
    /\ Candidates(lnExt, lnIn) # {}
    /\ LET w == Winner(lnExt, lnIn)
       IN  /\ w.block
           /\ ClosersFrom(lnIn, w.at, w.closer) = {}
           /\ MarkerWithin(lnIn, w.at, Len(lnIn))
           /\ w.at > 1
           /\ IsWhitespace(lnIn[w.at])
           /\ lnOut1.hit
           /\ Len(lnOut1.text) < w.at

-----------------------------------------------------------------------------
(* The selection and the run.                                               *)

InFiles(path) == \E k \in 1..Len(files) : files[k] = path

MatchesAny(patterns, str) == \E k \in 1..Len(patterns) : GlobMatches(patterns[k], str)

AnyPatternError == \E k \in 1..Len(includes \o excludes) : PatternError((includes \o excludes)[k])

\* the regular files of the tree outside the .git entries
RegularFiles == {i \in 1..Len(Tree) : ~Tree[i].dir /\ ~Filtered(i)}

\* C4: a file the ignore predicate holds of is never in the selector's
\* output, whatever the include and exclude patterns.
C4_IgnoredNeverSelected ==
    \A i \in 1..Len(Tree) : ignoreSaid[i] = "yes" => ~InFiles(Tree[i].rel)

\* the selection returned, an ignored file matches an include pattern and no
\* exclude pattern, and another file was selected
C4_Witness ==
    /\ pc = "selected"
    /\ files # <<>>
    /\ \E i \in RegularFiles :
        /\ ignoreSaid[i] = "yes"
        /\ MatchesAny(includes, Normalize(Tree[i].rel))
        /\ ~MatchesAny(excludes, Normalize(Tree[i].rel))

\* C5: no file whose normalized relative path matches an exclude pattern is
\* in the selector's output, whether or not it matches an include pattern
\* and also when there is no include pattern.
C5_ExcludeDominates ==
    \A k \in 1..Len(files) : ~MatchesAny(excludes, Normalize(files[k]))

\* the selection returned; a file that is not ignored matches an exclude
\* pattern (after normalization only) and an include pattern
C5_Witness ==
    /\ pc = "selected"
    /\ files # <<>>
    /\ \E i \in RegularFiles :
        /\ ignoreSaid[i] = "no"
        /\ MatchesAny(excludes, Normalize(Tree[i].rel))
        /\ ~MatchesAny(excludes, Tree[i].rel)
        /\ MatchesAny(includes, Normalize(Tree[i].rel))

\* C6 as claimed: once the selection has returned, a regular file outside
\* .git that is not ignored and matches no exclude pattern is in the output
\* iff there is no include pattern or its normalized path matches one.
C6_Original ==
    pc = "selected" =>
        \A i \in RegularFiles :
            (ignoreSaid[i] = "no" /\ ~MatchesAny(excludes, Normalize(Tree[i].rel)))
                => (InFiles(Tree[i].rel)
                        <=> (includes = <<>> \/ MatchesAny(includes, Normalize(Tree[i].rel))))

\* C6: once the selection has returned, a regular file outside .git whose
\* relative path is valid UTF-8, that is not ignored and matches no exclude
\* pattern, is in the output iff there is no include pattern or its
\* normalized path matches one; a file whose path is not valid UTF-8 is
\* never in the output.
C6_Amended ==
    pc = "selected" =>
        \A i \in RegularFiles :
            IF Utf8Valid(Tree[i].rel)
            THEN (ignoreSaid[i] = "no" /\ ~MatchesAny(excludes, Normalize(Tree[i].rel)))
                    => (InFiles(Tree[i].rel)
                            <=> (includes = <<>>
                                    \/ MatchesAny(includes, Normalize(Tree[i].rel))))
            ELSE ~InFiles(Tree[i].rel)

\* the selection returned with no include pattern: two files are selected,
\* one is excluded, and the file whose path is not UTF-8 was not ignored
C6_Witness ==
    /\ pc = "selected"
    /\ includes = <<>>
    /\ Len(files) >= 2
    /\ \E i \in RegularFiles :
        ignoreSaid[i] = "no" /\ MatchesAny(excludes, Normalize(Tree[i].rel))
    /\ \E i \in RegularFiles : ignoreSaid[i] = "no" /\ ~Utf8Valid(Tree[i].rel)

\* the run is past the compilation of the patterns
SelectionPastCompile ==
    \/ pc \in {"walk", "selected", "select_failed", "read", "lines"}
    \/ pc = "exit" /\ notices[1].kind # "Error finding git root"

NothingProcessed == attempts = <<>> /\ writes = <<>> /\ disk = original

\* C10 as claimed: an invalid pattern makes the selection fail with the
\* invalid-pattern error before the walker yields anything, and a failed
\* selection ends the run with exit status 1 and no file read or written.
C10_Original ==
    /\ (SelectionPastCompile /\ AnyPatternError)
            => (err = "InvalidGlob" /\ walked = 0 /\ pc \in {"select_failed", "exit"})
    /\ (pc = "select_failed" \/ (pc = "exit" /\ err # "none"))
            => (NothingProcessed /\ (pc = "exit" => exitCode = 1))

\* C10: an invalid pattern makes the selection fail before the walker yields
\* anything, with the invalid-pattern error unless Repository::open failed
\* first (then with that error); a failed selection ends the run with exit
\* status 1 and no file read or written.
C10_Amended ==
    /\ (SelectionPastCompile /\ AnyPatternError)
            => (err \in {"InvalidGlob", "GitDiscovery"} /\ walked = 0
                    /\ pc \in {"select_failed", "exit"})
    /\ (pc \in {"walk", "selected", "read", "lines"}) => ~AnyPatternError
    /\ err = "InvalidGlob" => (AnyPatternError /\ walked = 0)
    /\ (pc = "select_failed" \/ (pc = "exit" /\ err # "none"))
            => (NothingProcessed /\ (pc = "exit" => exitCode = 1))

\* the run ended on an invalid exclude pattern, the include patterns valid
C10_Witness ==
    /\ pc = "exit"
    /\ err = "InvalidGlob"
    /\ exitCode = 1
    /\ \A k \in 1..Len(includes) : ~PatternError(includes[k])
    /\ \E k \in 1..Len(excludes) : PatternError(excludes[k])
    /\ notices = <<Note("Error listing files", <<>>)>>

\* C2: process_file is called on every file of the list once, in list order,
\* whatever happened to the files before, and the run then prints "Done."
\* and ends with exit status 0.
C2_EveryFileAttempted ==
    /\ Len(attempts) <= Len(files)
    /\ \A k \in 1..Len(attempts) : attempts[k] = files[k]
    /\ pc = "read" => Len(attempts) = fileIdx - 1
    /\ pc = "lines" => Len(attempts) = fileIdx
    /\ (pc = "exit" /\ err = "none" /\ files # <<>>)
            => /\ attempts = files
               /\ exitCode = 0
               /\ notices[Len(notices)] = Note("Done", <<>>)

\* the run ended after three files: the first failed to read or decode, the
\* write of the second failed, the third was cleaned
C2_Witness ==
    /\ pc = "exit"
    /\ exitCode = 0
    /\ Len(files) = 3
    /\ attempts = files
    /\ Len(writes) = 2
    /\ writes[1].file = files[2]
    /\ writes[2].file = files[3]
    /\ \E n \in 1..Len(notices) : notices[n] = Note("Error processing file", files[1])
    /\ \E n \in 1..Len(notices) : notices[n] = Note("Error processing file", files[2])
    /\ \E n \in 1..Len(notices) : notices[n] = Note("Cleaned", files[3])

\* whether the cleaning rules change a line of the text of a file with the
\* given extension, and the whole cleaned text; tabulated over the contents
\* and the extensions of the tree
LineModifiedIn(text, ext) ==
    \E k \in 1..Len(Lines(text)) : CleanLine(ext, Lines(text)[k]).text # Lines(text)[k]

CleanedText(text, ext) ==
    Join([k \in 1..Len(Lines(text)) |-> CleanLine(ext, Lines(text)[k]).text])

TreeExts == {ExtOf(f) : f \in AllFiles}

ModifiedTable == [text \in ContentPool |-> [ext \in TreeExts |-> LineModifiedIn(text, ext)]]

CleanedTable == [text \in ContentPool |-> [ext \in TreeExts |-> CleanedText(text, ext)]]

\* a line of the file, as it was when the run started, is changed by the
\* cleaning rules
SomeLineModified(f) == ModifiedTable[original[f]][ExtOf(f)]

\* the whole cleaned file
CleanedFile(f) == CleanedTable[original[f]][ExtOf(f)]

WritesTo(f) == {k \in 1..Len(writes) : writes[k].file = f}

\* process_file has returned for the file
Processed(f) == \E k \in 1..Len(files) : files[k] = f /\ k < fileIdx

Failed(f) == \E n \in 1..Len(notices) : notices[n] = Note("Error processing file", f)

\* C3: a file is written iff one of its lines is modified: a file with no
\* modified line is never written and stays as it was; a write is one call
\* with the whole cleaned file, made after every line was evaluated.
C3_WrittenIffModified ==
    \A f \in AllFiles :
        /\ Cardinality(WritesTo(f)) <= 1
        /\ WritesTo(f) = {} => disk[f] = original[f]
        /\ \A k \in WritesTo(f) : SomeLineModified(f) /\ writes[k].data = CleanedFile(f)
        /\ (Processed(f) /\ SomeLineModified(f) /\ ~Failed(f)) => WritesTo(f) # {}
        /\ (pc = "lines" /\ files[fileIdx] = f) => WritesTo(f) = {}

\* the run ended with one file read, left unwritten and unchanged, and
\* another written with its cleaned text
C3_Witness ==
    /\ pc = "exit"
    /\ \E f \in AllFiles :
        /\ Processed(f)
        /\ ~Failed(f)
        /\ ~SomeLineModified(f)
        /\ WritesTo(f) = {}
        /\ disk[f] = original[f]
    /\ \E g \in AllFiles :
        /\ Processed(g)
        /\ WritesTo(g) # {}
        /\ disk[g] = CleanedFile(g)
        /\ disk[g] # original[g]

=============================================================================
